---- MODULE Spec2Model ----
(***************************************************************************)
(* Content metadata validation (src/content.config.ts), reading-time       *)
(* estimation (src/utils/estimateReadMinutes.ts) and the CMS manifest      *)
(* endpoint (src/pages/cms/config.yml.ts) of tech-blog-v2.                 *)
(*                                                                         *)
(* Strings are sequences of one-character strings, so that trimming,       *)
(* whitespace collapsing, tag stripping and word matching are computed on  *)
(* characters.                                                             *)
(***************************************************************************)
EXTENDS Integers, Sequences, FiniteSets, TLC

VARIABLES
    authors,       \* ids of the entries of the authors collection
    rawAuthor,     \* front matter of the author file being loaded
    authorResult,  \* outcome of parsing rawAuthor with the authors schema
    rawPost,       \* front matter of the blog file being loaded
    postResult,    \* outcome of parsing rawPost with the blog schema
    reparsed,      \* outcome of parsing the parsed post once more
    earlierResult, \* outcome of parsing rawPost with the earlier blog schema
    batch,         \* the records of a build: front matter and body of each
    results,       \* for each record of the batch, what has been computed
    env,           \* import.meta.env.PUBLIC_API_BASE
    manifest,      \* the CMS manifest served by GET
    text,          \* the body handed to the reading-time estimator
    fromText,      \* last result of estimateReadMinutesFromText(text)
    fromHTML       \* last result of estimateReadMinutesFromHTML(text)

vars ==
    <<authors, rawAuthor, authorResult, rawPost, postResult, reparsed, earlierResult,
      batch, results, env, manifest, text, fromText, fromHTML>>

(***************************************************************************)
(* Bounds                                                                  *)
(***************************************************************************)
MaxTextLen == 4      \* every body of at most this many characters is tried
MaxEdits == 2        \* a front matter differs from a well-formed one in at most this many fields
MaxBaseLen == 3      \* PUBLIC_API_BASE is unset or has at most this many characters
BatchSize == 2       \* a build handles this many records

(***************************************************************************)
(* Characters                                                              *)
(***************************************************************************)
Letters == {"a", "Z", "p", "o", "n", "e", "t", "w", "h", "r"}
Digits == {"0", "1", "2", "3", "4", "5", "6", "7", "8", "9"}
\* \s of the regular expressions: space, tab, line feed (among others)
Whitespace == {" ", "\t", "\n"}
\* "U+4E2D" stands for one non-Latin letter
NonLatin == {"U+4E2D"}

\* the alphabet bodies are enumerated over
Chars == {"a", "7", " ", "\n", "<", ">", ".", "U+4E2D"}

Max(a, b) == IF a >= b THEN a ELSE b

\* the positions of s, in order
Indices(s) == [i \in 1..Len(s) |-> i]

\* String.prototype.repeat
Repeat(u, k) == [i \in 1..(k * Len(u)) |-> u[((i - 1) % Len(u)) + 1]]

\* every string over A of length at most n
StringsUpTo(A, n) == UNION {[1..k -> A] : k \in 0..n}

(***************************************************************************)
(* src/utils/estimateReadMinutes.ts                                        *)
(***************************************************************************)

\* the [A-Za-z0-9] character class
IsAlnum(c) == c \in Letters \cup Digits

\* the \s character class
IsSpace(c) == c \in Whitespace

\* s.replace(/\s+/g, ' '): every maximal run of whitespace becomes one space
CollapseWhitespace(s) ==
    LET kept == SelectSeq(Indices(s),
                    LAMBDA i : ~IsSpace(s[i]) \/ i = 1 \/ ~IsSpace(s[i - 1]))
    IN  [k \in 1..Len(kept) |-> IF IsSpace(s[kept[k]]) THEN " " ELSE s[kept[k]]]

\* String.prototype.trim
Trim(s) ==
    LET solid(i) == ~IsSpace(s[i])
    IN  IF \A i \in 1..Len(s) : ~solid(i)
        THEN <<>>
        ELSE LET first == CHOOSE i \in 1..Len(s) :
                              solid(i) /\ \A j \in 1..(i - 1) : ~solid(j)
                 last == CHOOSE i \in 1..Len(s) :
                              solid(i) /\ \A j \in (i + 1)..Len(s) : ~solid(j)
             IN  SubSeq(s, first, last)

\* the count taken by splitting at whitespace only, as /\S+/g would
MatchTokenCount(s) ==
    Cardinality({i \in 1..Len(s) : ~IsSpace(s[i]) /\ (i = 1 \/ IsSpace(s[i - 1]))})

\* (s.match(/[A-Za-z0-9]+/g) ?? []).length: the matches are found left to
\* right, each one starting at an alphanumeric character that no earlier
\* match has consumed and extending as far as the class allows; no match at
\* all gives null, which ?? turns into the empty list
MatchAlnumCount(s) ==
    Cardinality({i \in 1..Len(s) : IsAlnum(s[i]) /\ (i = 1 \/ ~IsAlnum(s[i - 1]))})

WordsPerMinute == 200

\* Math.floor(n / d)
FloorDiv(n, d) == n \div d

\* Math.ceil(n / d) for naturals n, d > 0
CeilDiv(n, d) == (n + d - 1) \div d

\* the local englishWords of estimateReadMinutesFromText
englishWords(t) ==
    LET clean == Trim(CollapseWhitespace(t))
    IN  MatchAlnumCount(clean)

\* the estimate without its floor of one minute
EstimateWithoutFloor(t) == CeilDiv(englishWords(t), WordsPerMinute)

estimateReadMinutesFromText(t) ==
    Max(1, CeilDiv(englishWords(t), WordsPerMinute))

\* a replace for which a '<' needs no '>': an unclosed '<' matches to the end
StripTagsUnclosed(h) ==
    LET inside(i) == \E p \in 1..(i - 1) :
                         /\ h[p] = "<"
                         /\ \A j \in (p + 1)..(i - 1) : h[j] \notin {"<", ">"}
        opens(i) == h[i] = "<" /\ ~inside(i)
        kept == SelectSeq(Indices(h), LAMBDA i : ~inside(i))
    IN  [k \in 1..Len(kept) |-> IF opens(kept[k]) THEN " " ELSE h[kept[k]]]

\* html.replace(/<[^>]*>/g, ''): the matches are deleted instead
StripTagsToNothing(h) ==
    LET closes(i) == \E q \in i..Len(h) : h[q] = ">"
        inside(i) == /\ closes(i)
                     /\ \E p \in 1..(i - 1) :
                            /\ h[p] = "<"
                            /\ \A j \in (p + 1)..(i - 1) : h[j] \notin {"<", ">"}
        opens(i) == h[i] = "<" /\ closes(i) /\ ~inside(i)
        kept == SelectSeq(Indices(h), LAMBDA i : ~inside(i) /\ ~opens(i))
    IN  [k \in 1..Len(kept) |-> h[kept[k]]]

\* html.replace(/<[^>]*>/g, ' '): scanning left to right, a '<' outside every
\* earlier match that has a '>' somewhere after it matches up to the first
\* such '>'; each match becomes one space
StripTags(h) ==
    LET closes(i) == \E q \in i..Len(h) : h[q] = ">"
        \* position i lies in a match opened before i: the nearest '<' or '>'
        \* before i is a '<', and the match still finds its '>'
        inside(i) == /\ closes(i)
                     /\ \E p \in 1..(i - 1) :
                            /\ h[p] = "<"
                            /\ \A j \in (p + 1)..(i - 1) : h[j] \notin {"<", ">"}
        opens(i) == h[i] = "<" /\ closes(i) /\ ~inside(i)
        kept == SelectSeq(Indices(h), LAMBDA i : ~inside(i))
    IN  [k \in 1..Len(kept) |-> IF opens(kept[k]) THEN " " ELSE h[kept[k]]]

\* the local text of estimateReadMinutesFromHTML
htmlText(html) == Trim(CollapseWhitespace(StripTags(html)))

estimateReadMinutesFromHTML(html) == estimateReadMinutesFromText(htmlText(html))

(***************************************************************************)
(* Front-matter values.  A value is what the YAML parser hands over: a     *)
(* missing key (undefined), null, a string, a number, or a date.           *)
(***************************************************************************)
Undefined == [kind |-> "undefined", s |-> <<>>, n |-> 0]
Null == [kind |-> "null", s |-> <<>>, n |-> 0]
Str(s) == [kind |-> "string", s |-> s, n |-> 0]
Num(n) == [kind |-> "number", s |-> <<>>, n |-> n]
DateOf(n) == [kind |-> "date", s |-> <<>>, n |-> n]
InvalidDate == [kind |-> "invalid date", s |-> <<>>, n |-> 0]
\* a YAML list of strings
Arr(items) == [kind |-> "array", s |-> <<>>, n |-> Len(items), items |-> items]

\* an inline author object; a key that is not given is undefined
Obj(name, avatarImage, avatarUrl, website) ==
    [kind |-> "object", name |-> name, avatarImage |-> avatarImage,
     avatarUrl |-> avatarUrl, website |-> website]
\* the author key when it holds no object
NoObj(kind) ==
    [kind |-> kind, name |-> Undefined, avatarImage |-> Undefined,
     avatarUrl |-> Undefined, website |-> Undefined]

IsBlank(s) == \A i \in 1..Len(s) : IsSpace(s[i])

StartsWith(s, prefix) ==
    Len(s) >= Len(prefix) /\ SubSeq(s, 1, Len(prefix)) = prefix

Https == <<"h", "t", "t", "p", "s", ":", "/", "/">>

(***************************************************************************)
(* Date coercion: new Date(value), as z.coerce.date() applies it           *)
(***************************************************************************)
DigitValue(c) ==
    CHOOSE d \in 0..9 : <<"0", "1", "2", "3", "4", "5", "6", "7", "8", "9">>[d + 1] = c

\* a day number that orders dates as the calendar does
DayNumber(y, m, d) == (y * 12 + (m - 1)) * 31 + d

\* Date.parse on a date-only ISO string YYYY-MM-DD; anything else is NaN
DateParse(s) ==
    IF /\ Len(s) = 10
       /\ s[5] = "-" /\ s[8] = "-"
       /\ \A i \in {1, 2, 3, 4, 6, 7, 9, 10} : s[i] \in Digits
    THEN LET y == 1000 * DigitValue(s[1]) + 100 * DigitValue(s[2])
                    + 10 * DigitValue(s[3]) + DigitValue(s[4])
             m == 10 * DigitValue(s[6]) + DigitValue(s[7])
             d == 10 * DigitValue(s[9]) + DigitValue(s[10])
         IN  IF m \in 1..12 /\ d \in 1..31 THEN DateOf(DayNumber(y, m, d)) ELSE InvalidDate
    ELSE InvalidDate

\* new Date(v): undefined gives an invalid date, null gives the epoch, a
\* a constructor that does not copy a date but moves it by one day
NewDateShifted(v) ==
    CASE v.kind = "undefined" -> InvalidDate
      [] v.kind = "null" -> DateOf(0)
      [] v.kind = "number" -> DateOf(v.n)
      [] v.kind = "date" -> DateOf(v.n + 1)
      [] v.kind = "string" -> DateParse(v.s)
      [] OTHER -> InvalidDate

\* number is a time value, a date is copied, a string is parsed
NewDate(v) ==
    CASE v.kind = "undefined" -> InvalidDate
      [] v.kind = "null" -> DateOf(0)
      [] v.kind = "number" -> DateOf(v.n)
      [] v.kind = "date" -> v
      [] v.kind = "string" -> DateParse(v.s)
      [] OTHER -> InvalidDate

(***************************************************************************)
(* The zod schema types used by src/content.config.ts.  Parsing a value    *)
(* gives the parsed value and the codes of the issues found.               *)
(***************************************************************************)
Ok(v) == [value |-> v, issues |-> {}]
Fail(code) == [value |-> Undefined, issues |-> {code}]

\* z.string()
ZString(v) == IF v.kind = "string" THEN Ok(v) ELSE Fail("invalid_type")

\* a string-or-list type in the place of z.string().optional()
ZStringOrListOptional(v) == IF v.kind \in {"undefined", "array"} THEN Ok(v) ELSE ZString(v)

\* z.string().optional()
ZStringOptional(v) == IF v.kind = "undefined" THEN Ok(v) ELSE ZString(v)

\* z.coerce.date()
ZCoerceDate(v) ==
    LET d == NewDate(v)
    IN  IF d.kind = "date" THEN Ok(d) ELSE Fail("invalid_date")

\* z.coerce.date().optional()
ZCoerceDateOptional(v) == IF v.kind = "undefined" THEN Ok(v) ELSE ZCoerceDate(v)

\* image().optional(): a path string, resolved to the image it names
ImageOptional(v) ==
    IF v.kind = "undefined" THEN Ok(v)
    ELSE IF v.kind = "string" THEN Ok([kind |-> "image", s |-> v.s, n |-> 0])
    ELSE Fail("invalid_type")

\* the issues of one key, each with the path of the key
At(path, r) == {[path |-> path, code |-> c] : c \in r.issues}

AuthorFields == {"name", "avatarImage", "avatarUrl", "website"}

\* the authors schema, content.config.ts lines 39-44
AuthorSchema(raw) ==
    LET name == ZString(raw.name)
        avatarImage == ZStringOptional(raw.avatarImage)
        avatarUrl == ZStringOptional(raw.avatarUrl)
        website == ZStringOptional(raw.website)
        issues == At(<<"name">>, name) \cup At(<<"avatarImage">>, avatarImage)
                    \cup At(<<"avatarUrl">>, avatarUrl) \cup At(<<"website">>, website)
    IN  [done |-> TRUE,
         success |-> issues = {},
         issues |-> issues,
         data |-> [name |-> name.value, avatarImage |-> avatarImage.value,
                   avatarUrl |-> avatarUrl.value, website |-> website.value]]

\* an author key in which avatarImage has taken the place of avatarUrl:
\* avatarUrl is no key of the object and is stripped
InlineAuthorWithoutAvatarUrl(raw) ==
    IF raw.kind = "undefined" THEN [value |-> NoObj("undefined"), issues |-> {}]
    ELSE IF raw.kind # "object"
    THEN [value |-> NoObj("undefined"),
          issues |-> {[path |-> <<"author">>, code |-> "invalid_type"]}]
    ELSE LET name == ZStringOptional(raw.name)
             avatarImage == ZStringOptional(raw.avatarImage)
             website == ZStringOptional(raw.website)
         IN  [value |-> Obj(name.value, avatarImage.value, Undefined, website.value),
              issues |-> At(<<"author", "name">>, name)
                           \cup At(<<"author", "avatarImage">>, avatarImage)
                           \cup At(<<"author", "website">>, website)]

\* an author key whose name is z.string(), not optional
InlineAuthorNameRequired(raw) ==
    IF raw.kind = "undefined" THEN [value |-> NoObj("undefined"), issues |-> {}]
    ELSE IF raw.kind # "object"
    THEN [value |-> NoObj("undefined"),
          issues |-> {[path |-> <<"author">>, code |-> "invalid_type"]}]
    ELSE LET name == ZString(raw.name)
             avatarImage == ZStringOptional(raw.avatarImage)
             avatarUrl == ZStringOptional(raw.avatarUrl)
             website == ZStringOptional(raw.website)
         IN  [value |-> Obj(name.value, avatarImage.value, avatarUrl.value, website.value),
              issues |-> At(<<"author", "name">>, name)
                           \cup At(<<"author", "avatarImage">>, avatarImage)
                           \cup At(<<"author", "avatarUrl">>, avatarUrl)
                           \cup At(<<"author", "website">>, website)]

\* the author key of the blog schema, content.config.ts lines 65-72:
\* z.object({...}).optional()
InlineAuthorSchema(raw) ==
    IF raw.kind = "undefined" THEN [value |-> NoObj("undefined"), issues |-> {}]
    ELSE IF raw.kind # "object"
    THEN [value |-> NoObj("undefined"),
          issues |-> {[path |-> <<"author">>, code |-> "invalid_type"]}]
    ELSE LET name == ZStringOptional(raw.name)
             avatarImage == ZStringOptional(raw.avatarImage)
             avatarUrl == ZStringOptional(raw.avatarUrl)
             website == ZStringOptional(raw.website)
         IN  [value |-> Obj(name.value, avatarImage.value, avatarUrl.value, website.value),
              issues |-> At(<<"author", "name">>, name)
                           \cup At(<<"author", "avatarImage">>, avatarImage)
                           \cup At(<<"author", "avatarUrl">>, avatarUrl)
                           \cup At(<<"author", "website">>, website)]

\* a blog schema whose authorId accepts no id: every value given is an issue
BlogSchemaNoAuthorId(raw) ==
    LET title == ZString(raw.title)
        description == ZString(raw.description)
        pubDate == ZCoerceDate(raw.pubDate)
        updatedDate == ZCoerceDateOptional(raw.updatedDate)
        heroImage == ImageOptional(raw.heroImage)
        category == ZString(raw.category)
        excerpt == ZString(raw.excerpt)
        authorId == IF raw.authorId.kind = "undefined" THEN Ok(raw.authorId)
                    ELSE Fail("custom")
        author == InlineAuthorSchema(raw.author)
        issues == At(<<"title">>, title) \cup At(<<"description">>, description)
                    \cup At(<<"pubDate">>, pubDate) \cup At(<<"updatedDate">>, updatedDate)
                    \cup At(<<"heroImage">>, heroImage) \cup At(<<"category">>, category)
                    \cup At(<<"excerpt">>, excerpt) \cup At(<<"authorId">>, authorId)
                    \cup author.issues
    IN  [done |-> TRUE,
         success |-> issues = {},
         issues |-> issues,
         data |-> [title |-> title.value, description |-> description.value,
                   pubDate |-> pubDate.value, updatedDate |-> updatedDate.value,
                   heroImage |-> heroImage.value, category |-> category.value,
                   excerpt |-> excerpt.value, authorId |-> authorId.value,
                   author |-> author.value]]

\* a blog schema refined to reject an updatedDate earlier than pubDate
BlogSchemaOrdered(raw) ==
    LET title == ZString(raw.title)
        description == ZString(raw.description)
        pubDate == ZCoerceDate(raw.pubDate)
        updatedDate == ZCoerceDateOptional(raw.updatedDate)
        heroImage == ImageOptional(raw.heroImage)
        category == ZString(raw.category)
        excerpt == ZString(raw.excerpt)
        authorId == ZStringOptional(raw.authorId)
        author == InlineAuthorSchema(raw.author)
        order == IF /\ pubDate.value.kind = "date"
                    /\ updatedDate.value.kind = "date"
                    /\ updatedDate.value.n < pubDate.value.n
                 THEN {[path |-> <<"updatedDate">>, code |-> "custom"]}
                 ELSE {}
        issues == At(<<"title">>, title) \cup At(<<"description">>, description)
                    \cup At(<<"pubDate">>, pubDate) \cup At(<<"updatedDate">>, updatedDate)
                    \cup At(<<"heroImage">>, heroImage) \cup At(<<"category">>, category)
                    \cup At(<<"excerpt">>, excerpt) \cup At(<<"authorId">>, authorId)
                    \cup author.issues \cup order
    IN  [done |-> TRUE,
         success |-> issues = {},
         issues |-> issues,
         data |-> [title |-> title.value, description |-> description.value,
                   pubDate |-> pubDate.value, updatedDate |-> updatedDate.value,
                   heroImage |-> heroImage.value, category |-> category.value,
                   excerpt |-> excerpt.value, authorId |-> authorId.value,
                   author |-> author.value]]

\* a blog schema that stops at the first issue it finds
BlogSchemaFailFast(raw) ==
    LET title == ZString(raw.title)
        description == ZString(raw.description)
        pubDate == ZCoerceDate(raw.pubDate)
        updatedDate == ZCoerceDateOptional(raw.updatedDate)
        heroImage == ImageOptional(raw.heroImage)
        category == ZString(raw.category)
        excerpt == ZString(raw.excerpt)
        authorId == ZStringOptional(raw.authorId)
        author == InlineAuthorSchema(raw.author)
        all == At(<<"title">>, title) \cup At(<<"description">>, description)
                 \cup At(<<"pubDate">>, pubDate) \cup At(<<"updatedDate">>, updatedDate)
                 \cup At(<<"heroImage">>, heroImage) \cup At(<<"category">>, category)
                 \cup At(<<"excerpt">>, excerpt) \cup At(<<"authorId">>, authorId)
                 \cup author.issues
        issues == IF all = {} THEN {} ELSE {CHOOSE i \in all : TRUE}
    IN  [done |-> TRUE,
         success |-> issues = {},
         issues |-> issues,
         data |-> [title |-> title.value, description |-> description.value,
                   pubDate |-> pubDate.value, updatedDate |-> updatedDate.value,
                   heroImage |-> heroImage.value, category |-> category.value,
                   excerpt |-> excerpt.value, authorId |-> authorId.value,
                   author |-> author.value]]

\* the blog schema, content.config.ts lines 52-73; the author ids known to
\* the authors collection are not consulted
BlogSchema(raw) ==
    LET title == ZString(raw.title)
        description == ZString(raw.description)
        pubDate == ZCoerceDate(raw.pubDate)
        updatedDate == ZCoerceDateOptional(raw.updatedDate)
        heroImage == ImageOptional(raw.heroImage)
        category == ZString(raw.category)
        excerpt == ZString(raw.excerpt)
        authorId == ZStringOptional(raw.authorId)
        author == InlineAuthorSchema(raw.author)
        issues == At(<<"title">>, title) \cup At(<<"description">>, description)
                    \cup At(<<"pubDate">>, pubDate) \cup At(<<"updatedDate">>, updatedDate)
                    \cup At(<<"heroImage">>, heroImage) \cup At(<<"category">>, category)
                    \cup At(<<"excerpt">>, excerpt) \cup At(<<"authorId">>, authorId)
                    \cup author.issues
    IN  [done |-> TRUE,
         success |-> issues = {},
         issues |-> issues,
         data |-> [title |-> title.value, description |-> description.value,
                   pubDate |-> pubDate.value, updatedDate |-> updatedDate.value,
                   heroImage |-> heroImage.value, category |-> category.value,
                   excerpt |-> excerpt.value, authorId |-> authorId.value,
                   author |-> author.value]]

(***************************************************************************)
(* The earlier blog schema, content.config.ts lines 4-29.  A z.object      *)
(* strips the keys it does not declare: the parsed record has no authorId  *)
(* and its author no avatarImage.                                          *)
(***************************************************************************)
EarlierAuthorFields == {"name", "avatarUrl", "website"}

EarlierObj(kind, name, avatarUrl, website) ==
    [kind |-> kind, name |-> name, avatarUrl |-> avatarUrl, website |-> website]

\* the author key of the earlier blog schema, content.config.ts lines 21-27
EarlierInlineAuthorSchema(raw) ==
    IF raw.kind = "undefined"
    THEN [value |-> EarlierObj("undefined", Undefined, Undefined, Undefined), issues |-> {}]
    ELSE IF raw.kind # "object"
    THEN [value |-> EarlierObj("undefined", Undefined, Undefined, Undefined),
          issues |-> {[path |-> <<"author">>, code |-> "invalid_type"]}]
    ELSE LET name == ZStringOptional(raw.name)
             avatarUrl == ZStringOptional(raw.avatarUrl)
             website == ZStringOptional(raw.website)
         IN  [value |-> EarlierObj("object", name.value, avatarUrl.value, website.value),
              issues |-> At(<<"author", "name">>, name)
                           \cup At(<<"author", "avatarUrl">>, avatarUrl)
                           \cup At(<<"author", "website">>, website)]

\* the earlier blog schema, content.config.ts lines 9-28
EarlierBlogSchema(raw) ==
    LET title == ZString(raw.title)
        description == ZString(raw.description)
        pubDate == ZCoerceDate(raw.pubDate)
        updatedDate == ZCoerceDateOptional(raw.updatedDate)
        heroImage == ImageOptional(raw.heroImage)
        category == ZString(raw.category)
        excerpt == ZString(raw.excerpt)
        author == EarlierInlineAuthorSchema(raw.author)
        issues == At(<<"title">>, title) \cup At(<<"description">>, description)
                    \cup At(<<"pubDate">>, pubDate) \cup At(<<"updatedDate">>, updatedDate)
                    \cup At(<<"heroImage">>, heroImage) \cup At(<<"category">>, category)
                    \cup At(<<"excerpt">>, excerpt) \cup author.issues
    IN  [done |-> TRUE,
         success |-> issues = {},
         issues |-> issues,
         data |-> [title |-> title.value, description |-> description.value,
                   pubDate |-> pubDate.value, updatedDate |-> updatedDate.value,
                   heroImage |-> heroImage.value, category |-> category.value,
                   excerpt |-> excerpt.value, author |-> author.value]]

(***************************************************************************)
(* The CMS manifest, the YAML text GET builds: for each collection its     *)
(* fields, and for an object field the fields nested in it.                *)
(***************************************************************************)
\* one entry of a fields list; keys the entry does not set are "" or FALSE
Field(name, widget, required) ==
    [name |-> name, widget |-> widget, required |-> required, pattern |-> "",
     collection |-> "", value_field |-> "", multiple |-> FALSE, fields |-> <<>>]

HttpsPattern == "^https://"

\* a relation field that stores several ids
AuthorIdFieldMultiple ==
    [Field("authorId", "relation", FALSE) EXCEPT
        !.collection = "authors", !.value_field = "{{slug}}", !.multiple = TRUE]

\* a relation field that stores the display name
AuthorIdFieldByName ==
    [Field("authorId", "relation", FALSE) EXCEPT
        !.collection = "authors", !.value_field = "name", !.multiple = FALSE]

\* the Author ID field of the blog collection, part_000 lines 82-92
AuthorIdField ==
    [Field("authorId", "relation", FALSE) EXCEPT
        !.collection = "authors", !.value_field = "{{slug}}", !.multiple = FALSE]

\* the collections of the manifest, part_000 lines 32-110
ManifestCollections ==
    << [name |-> "authors", folder |-> "src/content/authors", slug |-> "{{slug}}",
        fields |->
          << Field("name", "string", TRUE),
             Field("avatarImage", "image", FALSE),
             [Field("website", "string", FALSE) EXCEPT !.pattern = HttpsPattern],
             Field("body", "markdown", FALSE) >>],
       [name |-> "blog", folder |-> "src/content/blog", slug |-> "{{slug}}",
        fields |->
          << Field("title", "string", TRUE),
             Field("description", "string", TRUE),
             Field("category", "string", TRUE),
             Field("excerpt", "text", TRUE),
             Field("pubDate", "datetime", TRUE),
             Field("updatedDate", "datetime", FALSE),
             Field("heroImage", "string", FALSE),
             AuthorIdField,
             [Field("author", "object", FALSE) EXCEPT
                 !.fields =
                    << Field("name", "string", FALSE),
                       Field("avatarImage", "image", FALSE),
                       [Field("website", "string", FALSE) EXCEPT
                           !.pattern = HttpsPattern] >>],
             Field("body", "markdown", TRUE) >>] >>

\* the collections of the earlier manifest, src/pages/cms/config.yml.ts lines 29-78
EarlierManifestCollections ==
    << [name |-> "blog", folder |-> "src/content/blog", slug |-> "{{slug}}",
        fields |->
          << Field("title", "string", TRUE),
             Field("description", "string", TRUE),
             Field("category", "string", TRUE),
             Field("excerpt", "text", TRUE),
             Field("pubDate", "datetime", TRUE),
             Field("updatedDate", "datetime", FALSE),
             Field("heroImage", "string", FALSE),
             [Field("author", "object", FALSE) EXCEPT
                 !.fields =
                    << Field("name", "string", FALSE),
                       Field("avatarUrl", "string", FALSE),
                       Field("website", "string", FALSE) >>],
             Field("body", "markdown", TRUE) >>] >>

DefaultBase ==
    <<"h", "t", "t", "p", "s", ":", "/", "/", "t", "e", "c", "h", "-", "b", "l", "o", "g", "-",
      "s", "e", "r", "v", "i", "c", "e", ".", "v", "e", "r", "c", "e", "l", ".", "a", "p", "p">>

\* a replace that removes one trailing '/' only
StripOneTrailingSlash(s) ==
    IF s # <<>> /\ s[Len(s)] = "/" THEN SubSeq(s, 1, Len(s) - 1) ELSE s

\* s.replace(/\/+$/, '')
StripTrailingSlashes(s) ==
    LET solid == {i \in 1..Len(s) : s[i] # "/"}
    IN  IF solid = {} THEN <<>>
        ELSE SubSeq(s, 1, CHOOSE i \in solid : \A j \in solid : j <= i)

\* the backend's base_url for a value e of PUBLIC_API_BASE
BaseUrl(e) ==
    LET rawBase == Trim(IF e.kind = "undefined" THEN <<>> ELSE e.s)
    IN  StripTrailingSlashes(IF rawBase = <<>> THEN DefaultBase ELSE rawBase)

\* the manifest GET builds
Manifest(e) ==
    [done |-> TRUE, base_url |-> BaseUrl(e), publish_mode |-> "editorial_workflow",
     collections |-> ManifestCollections]

(***************************************************************************)
(* The front matters tried: a well-formed one with at most MaxEdits of its *)
(* keys replaced.                                                          *)
(***************************************************************************)
JaneDoe == <<"j", "a", "n", "e", "-", "d", "o", "e">>
Ghost == <<"g", "h", "o", "s", "t">>
AuthorIds == {JaneDoe, Ghost}

HttpsJane == <<"h", "t", "t", "p", "s", ":", "/", "/", "j", "a", "n", "e", ".", "d", "e", "v">>
HttpJane == <<"h", "t", "t", "p", ":", "/", "/", "j", "a", "n", "e", ".", "d", "e", "v">>
RelativePath == <<"/", "a", "b", "o", "u", "t">>
Padded(s) == <<" ">> \o s \o <<" ">>

\* {name: "Jane Doe", website: "https://jane.dev"}
BaseAuthor ==
    [name |-> Str(<<"J", "a", "n", "e", " ", "D", "o", "e">>), avatarImage |-> Undefined,
     avatarUrl |-> Undefined, website |-> Str(HttpsJane)]

\* {title: "T", description: "D", category: "C", excerpt: "E", pubDate: "2026-01-01"}
BasePost ==
    [title |-> Str(<<"T">>), description |-> Str(<<"D">>),
     pubDate |-> Str(<<"2", "0", "2", "6", "-", "0", "1", "-", "0", "1">>), updatedDate |-> Undefined,
     heroImage |-> Undefined, category |-> Str(<<"C">>), excerpt |-> Str(<<"E">>),
     authorId |-> Undefined, author |-> NoObj("undefined")]

BlankStrings == {Str(<<>>), Str(<<" ">>), Str(<<" ", "\t">>)}

WebsiteValues ==
    {Undefined, Null, Str(HttpsJane), Str(HttpJane), Str(RelativePath)} \cup BlankStrings

AvatarValues == {Undefined, Null, Str(<<"/", "a">>)} \cup BlankStrings

\* an edit replaces the value at a key (a path, for the keys of the inline author)
AuthorEdits ==
    {<<"name", v>> : v \in {Undefined, Null, Str(Padded(<<"J">>))} \cup BlankStrings}
        \cup {<<"avatarImage", v>> : v \in AvatarValues}
        \cup {<<"avatarUrl", v>> : v \in AvatarValues}
        \cup {<<"website", v>> : v \in WebsiteValues}

RequiredStrings == {"title", "description", "category", "excerpt"}

PostEdits ==
    {<<<<f>>, v>> : f \in RequiredStrings,
                    v \in {Undefined, Null, Str(Padded(<<"T">>))} \cup BlankStrings}
        \cup {<<<<"pubDate">>, v>> :
                v \in {Undefined, Null, DateOf(DayNumber(2026, 1, 20)),
                       Str(<<"s", "o", "o", "n">>)}}
        \cup {<<<<"updatedDate">>, v>> :
                v \in {Null, DateOf(DayNumber(2025, 1, 20)),
                       Str(<<"2", "0", "2", "5", "-", "1", "2", "-", "3", "1">>), Str(<<"s", "o", "o", "n">>)}}
        \cup {<<<<"heroImage">>, v>> : v \in {Null, Str(<<"/", "a">>)}}
        \cup {<<<<"authorId">>, v>> :
                v \in {Null, Str(JaneDoe), Str(Ghost), Arr(<<JaneDoe>>),
                       Arr(<<JaneDoe, Ghost>>)} \cup BlankStrings}
        \cup {<<<<"author">>, v>> : v \in {NoObj("null"), Obj(Undefined, Undefined, Undefined, Undefined)}}
        \cup {<<<<"author", "name">>, v>> : v \in {Null, Str(<<"J">>)} \cup BlankStrings}
        \cup {<<<<"author", "avatarImage">>, v>> : v \in AvatarValues \ {Undefined}}
        \cup {<<<<"author", "avatarUrl">>, v>> : v \in AvatarValues \ {Undefined}}
        \cup {<<<<"author", "website">>, v>> : v \in WebsiteValues \ {Undefined}}

EditAuthor(raw, e) == [raw EXCEPT ![e[1]] = e[2]]

\* setting a key of the inline author makes the author key an object
EditPost(raw, e) ==
    IF Len(e[1]) = 1
    THEN [raw EXCEPT ![e[1][1]] = e[2]]
    ELSE [raw EXCEPT !.author = [@ EXCEPT !.kind = "object", ![e[1][2]] = e[2]]]

RECURSIVE ApplyEdits(_, _, _)
ApplyEdits(Edit(_, _), raw, es) ==
    IF es = <<>> THEN raw ELSE ApplyEdits(Edit, Edit(raw, Head(es)), Tail(es))

\* sequences of at most MaxEdits edits, no key edited twice
EditRuns(Edits) ==
    {es \in UNION {[1..k -> Edits] : k \in 0..MaxEdits} :
        \A i, j \in 1..Len(es) : i # j => es[i][1] # es[j][1]}

RawAuthors == {ApplyEdits(EditAuthor, BaseAuthor, es) : es \in EditRuns(AuthorEdits)}

RawPosts == {ApplyEdits(EditPost, BasePost, es) : es \in EditRuns(PostEdits)}

(***************************************************************************)
(* Content specification: the author and blog files are loaded through     *)
(* their collection's schema; author files come and go.                    *)
(***************************************************************************)
NotParsed == [done |-> FALSE]

\* GET has not run
NotServed == [done |-> FALSE]

\* no estimate asked for yet
Pending == [done |-> FALSE, englishWords |-> 0, minutes |-> 0]

InitContent ==
    /\ authors = {}
    /\ \/ rawAuthor = BaseAuthor /\ rawPost \in RawPosts
       \/ rawAuthor \in RawAuthors /\ rawPost = BasePost
    /\ authorResult = NotParsed
    /\ postResult = NotParsed
    /\ reparsed = NotParsed
    /\ earlierResult = NotParsed
    /\ batch = <<>>
    /\ results = <<>>
    /\ env = Undefined
    /\ manifest = NotServed
    /\ text = <<>>
    /\ fromText = Pending
    /\ fromHTML = Pending

\* the author file is stored under id and loaded: the entry joins the
\* collection when its front matter parses
LoadAuthor(id) ==
    /\ authorResult' = AuthorSchema(rawAuthor)
    /\ authors' = IF authorResult'.success THEN authors \cup {id} ELSE authors
    /\ UNCHANGED <<rawAuthor, rawPost, postResult, reparsed, env, earlierResult, batch, results, manifest, text, fromText, fromHTML>>

\* the author file id is deleted
RemoveAuthor(id) ==
    /\ id \in authors
    /\ authors' = authors \ {id}
    /\ UNCHANGED <<rawAuthor, authorResult, rawPost, postResult, reparsed, env, earlierResult, batch, results, manifest,
                   text, fromText, fromHTML>>

\* the blog file is loaded (again); known records the author ids of the
\* collection at that moment
LoadPost ==
    /\ postResult' = [known |-> authors] @@ BlogSchema(rawPost)
    /\ postResult' # postResult
    /\ reparsed' = NotParsed
    /\ UNCHANGED <<authors, rawAuthor, authorResult, rawPost, env, earlierResult, batch, results, manifest,
                   text, fromText, fromHTML>>

\* the parsed post is handed to the blog schema once more
ReparsePost ==
    /\ postResult.done
    /\ postResult.success
    /\ ~reparsed.done
    /\ reparsed' = BlogSchema(postResult.data)
    /\ UNCHANGED <<authors, rawAuthor, authorResult, rawPost, postResult, env, earlierResult, batch, results, manifest,
                   text, fromText, fromHTML>>

NextContent ==
    \/ \E id \in AuthorIds : LoadAuthor(id)
    \/ \E id \in AuthorIds : RemoveAuthor(id)
    \/ LoadPost
    \/ ReparsePost

Spec == InitContent /\ [][NextContent]_vars

(***************************************************************************)
(* Manifest specification: the build serves the CMS manifest for some      *)
(* value of PUBLIC_API_BASE, and a post saved from the CMS form, or edited *)
(* by hand, is loaded through the blog schema.                             *)
(***************************************************************************)
EnvChars == {"h", "/", " "}

EnvValues == {Undefined} \cup {Str(b) : b \in StringsUpTo(EnvChars, MaxBaseLen)}

\* the well-formed post, the post with one key changed, and the post with an
\* authorId and one key of the inline author
FormPosts ==
    {BasePost} \cup {EditPost(BasePost, e) : e \in PostEdits}
        \cup {EditPost(EditPost(BasePost, a), e) :
                a \in {x \in PostEdits : x[1] = <<"authorId">>},
                e \in {x \in PostEdits : x[1][1] = "author"}}

InitManifest ==
    /\ authors = {}
    /\ rawAuthor = BaseAuthor
    /\ authorResult = NotParsed
    /\ \/ env \in EnvValues /\ rawPost \in FormPosts
       \/ env = Undefined /\ rawPost \in RawPosts
    /\ postResult = NotParsed
    /\ reparsed = NotParsed
    /\ earlierResult = NotParsed
    /\ batch = <<>>
    /\ results = <<>>
    /\ manifest = NotServed
    /\ text = <<>>
    /\ fromText = Pending
    /\ fromHTML = Pending

\* GET of /cms/config.yml
GET ==
    /\ ~manifest.done
    /\ manifest' = Manifest(env)
    /\ UNCHANGED <<authors, rawAuthor, authorResult, rawPost, postResult, reparsed, env, earlierResult, batch, results,
                   text, fromText, fromHTML>>

NextManifest == GET \/ LoadPost

SpecManifest == InitManifest /\ [][NextManifest]_vars

(***************************************************************************)
(* Content properties                                                      *)
(***************************************************************************)
HasIssueAt(result, path) == \E i \in result.issues : i.path = path

Absent(v) == v.kind = "undefined"

\* a required string that is missing, empty or whitespace-only
MissingOrBlank(v) == Absent(v) \/ (v.kind = "string" /\ IsBlank(v.s))

NonBlankString(v) == v.kind = "string" /\ ~IsBlank(v.s)

\* an optional string given as null, empty or whitespace-only
NullOrBlank(v) == v.kind = "null" \/ (v.kind = "string" /\ IsBlank(v.s))

\* C1: a post that is well-formed apart from its authorId x passes exactly
\* when x is among the known author ids, and otherwise fails with an error
\* on authorId
Claim_C1_AuthorIdMustBeKnown ==
    (/\ postResult.done
     /\ rawPost.authorId.kind = "string"
     /\ [rawPost EXCEPT !.authorId = Undefined] = BasePost)
        => /\ postResult.success <=> rawPost.authorId.s \in postResult.known
           /\ rawPost.authorId.s \notin postResult.known
                  => HasIssueAt(postResult, <<"authorId">>)

\* C2: every post that passes against the current author collection names,
\* in authorId, an author the collection holds now
Claim_C2_PassingPostNamesExistingAuthor ==
    (/\ postResult.done
     /\ postResult.success
     /\ postResult.known = authors
     /\ ~Absent(postResult.data.authorId))
        => postResult.data.authorId.s \in authors

\* C3: title, description, category and excerpt: a missing, empty or
\* whitespace-only value is an error on that field; a non-blank string is
\* accepted and kept trimmed
Claim_C3_RequiredStringsNonBlankAndTrimmed ==
    postResult.done =>
        \A f \in RequiredStrings :
            /\ MissingOrBlank(rawPost[f]) => HasIssueAt(postResult, <<f>>)
            /\ NonBlankString(rawPost[f]) =>
                   /\ ~HasIssueAt(postResult, <<f>>)
                   /\ postResult.success => postResult.data[f] = Str(Trim(rawPost[f].s))

\* C4: an author record that passes has a non-blank name; a missing, empty
\* or whitespace-only name is rejected
Claim_C4_AuthorNameNeverEmpty ==
    authorResult.done =>
        /\ authorResult.success => NonBlankString(authorResult.data.name)
        /\ MissingOrBlank(rawAuthor.name) => ~authorResult.success

\* what C5 asks of one website key: raw value, the result, the key's path and
\* the parsed value
WebsiteIsHttps(raw, result, path, parsed) ==
    /\ result.success => Absent(parsed) \/ StartsWith(parsed.s, Https)
    /\ (NonBlankString(raw) /\ ~StartsWith(Trim(raw.s), Https)) => HasIssueAt(result, path)
    /\ (raw.kind = "string" /\ StartsWith(raw.s, Https)) =>
           ~HasIssueAt(result, path) /\ (result.success => parsed = raw)

\* C5: on author entities and inline authors that pass, website is absent or
\* starts with https://; another non-blank value is an error on website; an
\* https value comes back unchanged
Claim_C5_WebsiteHttpsOnly ==
    /\ authorResult.done =>
           WebsiteIsHttps(rawAuthor.website, authorResult, <<"website">>,
                          authorResult.data.website)
    /\ (postResult.done /\ rawPost.author.kind = "object") =>
           WebsiteIsHttps(rawPost.author.website, postResult, <<"author", "website">>,
                          postResult.data.author.website)

\* what C6 asks of one optional key
BlankMeansAbsent(raw, result, path, parsed) ==
    /\ NullOrBlank(raw) => ~HasIssueAt(result, path) /\ (result.success => Absent(parsed))
    /\ result.success => ~(parsed.kind = "string" /\ IsBlank(parsed.s))

\* C6: null, empty and whitespace-only values of the optional strings of an
\* author or inline author are accepted and read as absent; no parsed record
\* holds a blank string there
Claim_C6_BlankOptionalIsAbsent ==
    /\ authorResult.done =>
           \A f \in {"website", "avatarUrl", "avatarImage"} :
               BlankMeansAbsent(rawAuthor[f], authorResult, <<f>>, authorResult.data[f])
    /\ (postResult.done /\ rawPost.author.kind = "object") =>
           \A f \in AuthorFields :
               BlankMeansAbsent(rawPost.author[f], postResult, <<"author", f>>,
                                postResult.data.author[f])

(***************************************************************************)
(* Evolution specification: a post is loaded through the earlier blog      *)
(* schema and through the current one.                                     *)
(***************************************************************************)
InitEvolution ==
    /\ authors = {}
    /\ rawAuthor = BaseAuthor
    /\ authorResult = NotParsed
    /\ rawPost \in RawPosts
    /\ postResult = NotParsed
    /\ reparsed = NotParsed
    /\ earlierResult = NotParsed
    /\ batch = <<>>
    /\ results = <<>>
    /\ env = Undefined
    /\ manifest = NotServed
    /\ text = <<>>
    /\ fromText = Pending
    /\ fromHTML = Pending

\* the post file is parsed with the blog schema of the earlier version
LoadPostEarlier ==
    /\ ~earlierResult.done
    /\ earlierResult' = EarlierBlogSchema(rawPost)
    /\ UNCHANGED <<authors, rawAuthor, authorResult, rawPost, postResult, reparsed, batch,
                   results, env, manifest, text, fromText, fromHTML>>

NextEvolution == LoadPostEarlier \/ LoadPost

SpecEvolution == InitEvolution /\ [][NextEvolution]_vars

\* the keys the two blog schemas share, the author key apart
SharedKeys ==
    {"title", "description", "pubDate", "updatedDate", "heroImage", "category", "excerpt"}

\* the two parsed records agree on every key both schemas declare
SameSharedValues(earlier, current) ==
    /\ \A k \in SharedKeys : current[k] = earlier[k]
    /\ current.author.kind = earlier.author.kind
    /\ \A f \in EarlierAuthorFields : current.author[f] = earlier.author[f]

AddedKeysAbsentOrString(raw) ==
    /\ raw.authorId.kind \in {"undefined", "string"}
    /\ raw.author.kind = "object" => raw.author.avatarImage.kind \in {"undefined", "string"}

OtherwiseWellFormed(raw) ==
    [raw EXCEPT !.authorId = Undefined, !.author = NoObj("undefined")] = BasePost

AuthorPaths == {<<"author">>} \cup {<<"author", f>> : f \in AuthorFields}

Claim_C13_NoAuthorshipIsNoError ==
    postResult.done =>
        /\ rawPost.authorId.kind \in {"undefined", "null"} =>
               ~HasIssueAt(postResult, <<"authorId">>)
        /\ rawPost.author.kind \in {"undefined", "null"} =>
               ~HasIssueAt(postResult, <<"author">>)
        /\ (/\ rawPost.authorId.kind \in {"undefined", "null"}
            /\ rawPost.author.kind \in {"undefined", "null"}
            /\ OtherwiseWellFormed(rawPost)) =>
               /\ postResult.success
               /\ Absent(postResult.data.authorId)
               /\ Absent(postResult.data.author)

\* the inline author C14 speaks of: an object whose keys are each absent or
\* a string, the website an https one
InlineAuthorAsClaimed(a) ==
    /\ a.kind = "object"
    /\ \A f \in AuthorFields : a[f].kind \in {"undefined", "string"}
    /\ a.website.kind = "string" => StartsWith(a.website.s, Https)

\* C14: a post with such an inline author has no error at the author key or
\* below it, and passes when the rest of it is well-formed, whatever author
\* ids were known when it was parsed
Thm_C14_InlineAuthorNeedsNoEntity ==
    (postResult.done /\ InlineAuthorAsClaimed(rawPost.author)) =>
        /\ \A p \in AuthorPaths : ~HasIssueAt(postResult, p)
        /\ (OtherwiseWellFormed(rawPost) /\ rawPost.authorId.kind = "undefined") =>
               postResult.success /\ postResult.data.author = rawPost.author

Wit_C14_EmptyObjectNoAuthorsKnown ==
    /\ postResult.done
    /\ postResult.known = {}
    /\ rawPost.author = Obj(Undefined, Undefined, Undefined, Undefined)
    /\ postResult.success

\* the fields listed for the collection n of the manifest m, and those of
\* the object field o among them
ManifestFields(m, n) ==
    UNION {{m.collections[i].fields[j] : j \in 1..Len(m.collections[i].fields)} :
              i \in {i \in 1..Len(m.collections) : m.collections[i].name = n}}

NestedFields(m, n, o) ==
    UNION {{f.fields[j] : j \in 1..Len(f.fields)} :
              f \in {f \in ManifestFields(m, n) : f.name = o}}

CollectionNames(m) == {m.collections[i].name : i \in 1..Len(m.collections)}

RelationFields(m) ==
    {f \in UNION {ManifestFields(m, n) : n \in CollectionNames(m)} : f.widget = "relation"}

\* C16: a post that passes carries in authorId no value or one string, with
\* or without an inline author; the manifest's authorId field is a relation
\* with multiple: false
Thm_C16_AtMostOneAuthorId ==
    /\ (postResult.done /\ postResult.success) =>
           postResult.data.authorId.kind \in {"undefined", "string"}
    /\ manifest.done =>
           /\ \E f \in ManifestFields(manifest, "blog") : f.name = "authorId"
           /\ \A f \in ManifestFields(manifest, "blog") :
                  f.name = "authorId" => f.widget = "relation" /\ f.multiple = FALSE

Wit_C16_IdTogetherWithInlineAuthor ==
    /\ manifest.done
    /\ postResult.done
    /\ postResult.success
    /\ postResult.data.authorId = Str(JaneDoe)
    /\ postResult.data.author.kind = "object"

\* the paths of the keys of a post, and the post that is well-formed but
\* for the value raw has at the path p
KeyPaths == {<<k>> : k \in DOMAIN BasePost} \cup {<<"author", f>> : f \in AuthorFields}

KeyAlone(raw, p) ==
    IF Len(p) = 1 THEN [BasePost EXCEPT ![p[1]] = raw[p[1]]]
    ELSE [BasePost EXCEPT
             !.author = [Obj(Undefined, Undefined, Undefined, Undefined) EXCEPT
                            ![p[2]] = raw.author[p[2]]]]

\* the keys of raw whose value the schema rejects: the value is not that of
\* the well-formed post, and the post that has only that value of raw has an
\* issue at the key
RejectedPaths(raw) ==
    {p \in KeyPaths :
        /\ IF Len(p) = 1 THEN raw[p[1]] # BasePost[p[1]] ELSE raw.author.kind = "object"
        /\ HasIssueAt(BlogSchema(KeyAlone(raw, p)), p)}

IssuePaths(result) == {i.path : i \in result.issues}

\* C17: the well-formed post has no issue; the result of parsing a post
\* reports every key whose value the schema rejects, however many there are,
\* and nothing else; parsing always ends in a record or in a non-empty list
\* of issues
Thm_C17_EveryRejectedKeyReported ==
    /\ postResult.done =>
           (rawPost = BasePost => postResult.success)
    /\ postResult.done =>
           LET rejected == RejectedPaths(rawPost)
           IN  /\ IssuePaths(postResult) = rejected
               /\ postResult.success <=> rejected = {}
               /\ ~postResult.success => postResult.issues # {}

Wit_C17_TwoKeysRejected ==
    /\ postResult.done
    /\ Cardinality(RejectedPaths(rawPost)) = MaxEdits
    /\ Cardinality(IssuePaths(postResult)) = MaxEdits

\* a key is required by a schema when the record that lacks only that key
\* is rejected
AuthorRequires(f) == ~AuthorSchema([BaseAuthor EXCEPT ![f] = Undefined]).success

BlogRequires(k) ==
    ~BlogSchema([BasePost EXCEPT
                    ![k] = IF k = "author" THEN NoObj("undefined") ELSE Undefined]).success

InlineAuthorRequires(f) ==
    InlineAuthorSchema([Obj(Str(<<"J">>), Str(<<"/", "a">>), Str(<<"/", "a">>), Str(HttpsJane))
                           EXCEPT ![f] = Undefined]).issues # {}

\* the manifest fields list the key with the required flag given
Listed(fields, key, required) ==
    /\ \E f \in fields : f.name = key
    /\ \A f \in fields : f.name = key => f.required = required

\* C18: every key of the authors schema, of the blog schema and of the
\* blog's inline author is listed in the manifest for that collection, with
\* required: true exactly when the schema requires the key
Claim_C18_ManifestFieldParity ==
    manifest.done =>
        /\ \A f \in AuthorFields :
               Listed(ManifestFields(manifest, "authors"), f, AuthorRequires(f))
        /\ \A k \in DOMAIN BasePost :
               Listed(ManifestFields(manifest, "blog"), k, BlogRequires(k))
        /\ \A f \in AuthorFields :
               Listed(NestedFields(manifest, "blog", "author"), f, InlineAuthorRequires(f))

\* C19: every relation field of the manifest targets the authors collection
\* and stores, as value_field, that collection's slug and not the name
Thm_C19_RelationStoresAuthorSlug ==
    manifest.done =>
        \A f \in RelationFields(manifest) :
            /\ f.collection = "authors"
            /\ f.value_field # "name"
            /\ \E i \in 1..Len(manifest.collections) :
                   /\ manifest.collections[i].name = f.collection
                   /\ manifest.collections[i].slug = f.value_field

Wit_C19_RelationFieldServed ==
    /\ manifest.done
    /\ \E f \in RelationFields(manifest) : f.name = "authorId"

\* the raw value is a date or a string that parses as one
ParsableDate(v) == v.kind = "date" \/ (v.kind = "string" /\ DateParse(v.s).kind = "date")

\* the raw value is missing, null or a string that does not parse
MissingOrUnparsable(v) ==
    v.kind \in {"undefined", "null"} \/ (v.kind = "string" /\ DateParse(v.s).kind # "date")

\* C20: a missing, null or unparsable pubDate is an invalid_date error on
\* pubDate; a date or parsable string is accepted and kept as a date; an
\* absent updatedDate is accepted, a present one follows the same rule
Claim_C20_PubDateRequiredAndCoerced ==
    postResult.done =>
        /\ MissingOrUnparsable(rawPost.pubDate) =>
               [path |-> <<"pubDate">>, code |-> "invalid_date"] \in postResult.issues
        /\ ParsableDate(rawPost.pubDate) =>
               /\ ~HasIssueAt(postResult, <<"pubDate">>)
               /\ postResult.success => postResult.data.pubDate.kind = "date"
        /\ Absent(rawPost.updatedDate) => ~HasIssueAt(postResult, <<"updatedDate">>)
        /\ (rawPost.updatedDate.kind = "string" /\ MissingOrUnparsable(rawPost.updatedDate)) =>
               [path |-> <<"updatedDate">>, code |-> "invalid_date"] \in postResult.issues
        /\ ParsableDate(rawPost.updatedDate) =>
               /\ ~HasIssueAt(postResult, <<"updatedDate">>)
               /\ postResult.success => postResult.data.updatedDate.kind = "date"

\* C21: a post whose updatedDate is earlier than its pubDate has no issue at
\* either date, passes when the rest of it is well-formed, and carries both
\* dates as given
Thm_C21_DateOrderNotEnforced ==
    (/\ postResult.done
     /\ ParsableDate(rawPost.pubDate)
     /\ ParsableDate(rawPost.updatedDate)
     /\ NewDate(rawPost.updatedDate).n < NewDate(rawPost.pubDate).n) =>
        /\ ~HasIssueAt(postResult, <<"pubDate">>)
        /\ ~HasIssueAt(postResult, <<"updatedDate">>)
        /\ postResult.data.pubDate = NewDate(rawPost.pubDate)
        /\ postResult.data.updatedDate = NewDate(rawPost.updatedDate)
        /\ [rawPost EXCEPT !.updatedDate = Undefined] = BasePost => postResult.success

Wit_C21_UpdatedBeforePublished ==
    /\ postResult.done
    /\ postResult.success
    /\ postResult.data.updatedDate.kind = "date"
    /\ postResult.data.updatedDate.n < postResult.data.pubDate.n

\* C24: a post whose authorId is an author the collection held when the
\* post was parsed has no issue at authorId, in whatever order the author
\* files were loaded, and passes when the rest of it is well-formed
Thm_C24_KnownAuthorNeverDangling ==
    (/\ postResult.done
     /\ rawPost.authorId.kind = "string"
     /\ rawPost.authorId.s \in postResult.known) =>
        /\ ~HasIssueAt(postResult, <<"authorId">>)
        /\ [rawPost EXCEPT !.authorId = Undefined] = BasePost => postResult.success

Wit_C24_AllAuthorsLoadedFirst ==
    /\ postResult.done
    /\ postResult.known = AuthorIds
    /\ authors = AuthorIds
    /\ rawPost.authorId = Str(Ghost)
    /\ postResult.success

(***************************************************************************)
(* The backend's base_url in the manifest.                                 *)
(***************************************************************************)
\* u is s without its trailing '/' characters
WithoutTrailingSlashes(u, s) ==
    /\ Len(u) <= Len(s)
    /\ u = SubSeq(s, 1, Len(u))
    /\ \A i \in (Len(u) + 1)..Len(s) : s[i] = "/"
    /\ u # <<>> => u[Len(u)] # "/"

\* C27: when PUBLIC_API_BASE is set and not blank, base_url is its trimmed
\* value without the trailing '/' characters; when it is unset, empty or
\* whitespace-only, base_url is https://tech-blog-service.vercel.app; in no
\* case does base_url end with '/'
Thm_C27_BaseUrlTrimmedAndStripped ==
    manifest.done =>
        /\ (env.kind = "string" /\ ~IsBlank(env.s)) =>
               WithoutTrailingSlashes(manifest.base_url, Trim(env.s))
        /\ (env.kind = "undefined" \/ IsBlank(env.s)) => manifest.base_url = DefaultBase
        /\ manifest.base_url # <<>> => manifest.base_url[Len(manifest.base_url)] # "/"

Wit_C27_TwoTrailingSlashesRemoved ==
    /\ manifest.done
    /\ env = Str(<<"h", "/", "/">>)
    /\ manifest.base_url = <<"h">>

\* C28: whatever PUBLIC_API_BASE is, the base_url of the manifest is not
\* the empty string
Claim_C28_BaseUrlNeverEmpty ==
    manifest.done => manifest.base_url # <<>>

(***************************************************************************)
(* Reading-time specification: a body is chosen, then each estimator is    *)
(* applied to it.  A result records the word count the call worked with    *)
(* and the minutes it returned.                                            *)
(***************************************************************************)
\* "<p>one two</p><p>three</p>"
MarkupExample ==
    <<"<", "p", ">", "o", "n", "e", " ", "t", "w", "o", "<", "/", "p", ">",
      "<", "p", ">", "t", "h", "r", "e", "e", "<", "/", "p", ">">>

RepeatCounts ==
    {WordsPerMinute, WordsPerMinute + 1, 2 * WordsPerMinute, 2 * WordsPerMinute + 1}

\* "word ".repeat(n) and its variants: a word followed by a space, a full
\* stop, a non-Latin letter, another letter, or a tag
Units ==
    {<<"a", c>> : c \in {" ", ".", "U+4E2D", "a"}} \cup {<<"a", "<", "a", ">">>}

Bodies ==
    StringsUpTo(Chars, MaxTextLen)
        \cup {MarkupExample}
        \cup {Repeat(u, k) : u \in Units, k \in RepeatCounts}

InitEstimate ==
    /\ authors = {}
    /\ rawAuthor = BaseAuthor
    /\ authorResult = NotParsed
    /\ rawPost = BasePost
    /\ postResult = NotParsed
    /\ reparsed = NotParsed
    /\ earlierResult = NotParsed
    /\ batch = <<>>
    /\ results = <<>>
    /\ env = Undefined
    /\ manifest = NotServed
    /\ text \in Bodies
    /\ fromText = Pending
    /\ fromHTML = Pending

EstimateText ==
    /\ ~fromText.done
    /\ fromText' = [done |-> TRUE,
                    englishWords |-> englishWords(text),
                    minutes |-> estimateReadMinutesFromText(text)]
    /\ UNCHANGED <<text, fromHTML, authors, rawAuthor, authorResult, rawPost, postResult,
                   reparsed, env, earlierResult, batch, results, manifest>>

EstimateHTML ==
    /\ ~fromHTML.done
    /\ fromHTML' = [done |-> TRUE,
                    englishWords |-> englishWords(htmlText(text)),
                    minutes |-> estimateReadMinutesFromHTML(text)]
    /\ UNCHANGED <<text, fromText, authors, rawAuthor, authorResult, rawPost, postResult,
                   reparsed, env, earlierResult, batch, results, manifest>>

NextEstimate == EstimateText \/ EstimateHTML

SpecEstimate == InitEstimate /\ [][NextEstimate]_vars

(***************************************************************************)
(* Batch specification: a build holds several records, each a front matter *)
(* and a body.  The records are validated concurrently against one         *)
(* snapshot of the author ids: a validation begins, and ends at some later *)
(* moment, with other validations and estimations in between.              *)
(***************************************************************************)
BatchRecords ==
    {[raw |-> EditPost(BasePost, <<<<"authorId">>, Str(JaneDoe)>>), text |-> MarkupExample],
     [raw |-> EditPost(BasePost, <<<<"title">>, Undefined>>), text |-> <<>>],
     [raw |-> BasePost, text |-> <<"a", " ", "a">>]}

\* nothing computed yet for a record
Idle == [validation |-> NotParsed, fromText |-> Pending, fromHTML |-> Pending]

\* a validation that has begun: it holds the author ids it was given
InFlight(v) == ~v.done /\ "known" \in DOMAIN v

\* the snapshot is built before the batch: no author file, or all of them
InitBatch ==
    /\ authors \in {{}, AuthorIds}
    /\ rawAuthor = BaseAuthor
    /\ authorResult = NotParsed
    /\ rawPost = BasePost
    /\ postResult = NotParsed
    /\ reparsed = NotParsed
    /\ earlierResult = NotParsed
    /\ batch \in [1..BatchSize -> BatchRecords]
    /\ results = [i \in 1..BatchSize |-> Idle]
    /\ env = Undefined
    /\ manifest = NotServed
    /\ text = <<>>
    /\ fromText = Pending
    /\ fromHTML = Pending

BeginValidate(i) ==
    /\ results[i].validation = NotParsed
    /\ results' = [results EXCEPT ![i].validation = [done |-> FALSE, known |-> authors]]
    /\ UNCHANGED <<authors, rawAuthor, authorResult, rawPost, postResult, reparsed,
                   earlierResult, batch, env, manifest, text, fromText, fromHTML>>

\* a validation that adds to its own issues those of the validations ended
\* before it
EndValidateAccumulating(i) ==
    /\ InFlight(results[i].validation)
    /\ LET own == BlogSchema(batch[i].raw)
           carried == UNION {results[j].validation.issues :
                                j \in {j \in DOMAIN results : results[j].validation.done}}
       IN  results' = [results EXCEPT
               ![i].validation =
                   [known |-> @.known]
                       @@ [own EXCEPT !.issues = own.issues \cup carried,
                                      !.success = (own.issues \cup carried) = {}]]
    /\ UNCHANGED <<authors, rawAuthor, authorResult, rawPost, postResult, reparsed,
                   earlierResult, batch, env, manifest, text, fromText, fromHTML>>

EndValidate(i) ==
    /\ InFlight(results[i].validation)
    /\ results' = [results EXCEPT
           ![i].validation = [known |-> @.known] @@ BlogSchema(batch[i].raw)]
    /\ UNCHANGED <<authors, rawAuthor, authorResult, rawPost, postResult, reparsed,
                   earlierResult, batch, env, manifest, text, fromText, fromHTML>>

\* an estimator that numbers its calls and adds the number to its result
EstimateTextOfCounting(i) ==
    /\ ~results[i].fromText.done
    /\ LET before == Cardinality({j \in DOMAIN results : results[j].fromText.done})
       IN  results' = [results EXCEPT
               ![i].fromText =
                   [done |-> TRUE,
                    englishWords |-> englishWords(batch[i].text),
                    minutes |-> estimateReadMinutesFromText(batch[i].text) + before]]
    /\ UNCHANGED <<authors, rawAuthor, authorResult, rawPost, postResult, reparsed,
                   earlierResult, batch, env, manifest, text, fromText, fromHTML>>

EstimateTextOf(i) ==
    /\ ~results[i].fromText.done
    /\ results' = [results EXCEPT
           ![i].fromText =
               [done |-> TRUE,
                englishWords |-> englishWords(batch[i].text),
                minutes |-> estimateReadMinutesFromText(batch[i].text)]]
    /\ UNCHANGED <<authors, rawAuthor, authorResult, rawPost, postResult, reparsed,
                   earlierResult, batch, env, manifest, text, fromText, fromHTML>>

EstimateHTMLOf(i) ==
    /\ ~results[i].fromHTML.done
    /\ results' = [results EXCEPT
           ![i].fromHTML =
               [done |-> TRUE,
                englishWords |-> englishWords(htmlText(batch[i].text)),
                minutes |-> estimateReadMinutesFromHTML(batch[i].text)]]
    /\ UNCHANGED <<authors, rawAuthor, authorResult, rawPost, postResult, reparsed,
                   earlierResult, batch, env, manifest, text, fromText, fromHTML>>

NextBatch ==
    \E i \in 1..BatchSize :
        \/ BeginValidate(i)
        \/ EndValidate(i)
        \/ EstimateTextOf(i)
        \/ EstimateHTMLOf(i)

SpecBatch == InitBatch /\ [][NextBatch]_vars

WordRunEnds(s) ==
    {i \in 1..Len(s) :
        /\ s[i] \in Letters \cup Digits
        /\ (i = Len(s) \/ s[i + 1] \notin Letters \cup Digits)}

\* position i of h lies in a tag: a '<', then characters other than '>', then
\* the next '>'
InTag(h, i) ==
    /\ \E p \in 1..i : h[p] = "<" /\ \A j \in p..(i - 1) : h[j] # ">"
    /\ \E q \in i..Len(h) : h[q] = ">"

\* h with every character of a tag blanked
TagsBlanked(h) == [i \in 1..Len(h) |-> IF InTag(h, i) THEN " " ELSE h[i]]

\* C7: whatever the body (empty and word-free bodies included), both
\* estimators return an integer of at least 1
Thm_C7_AtLeastOneMinute ==
    /\ fromText.done => fromText.minutes \in Nat /\ fromText.minutes >= 1
    /\ fromHTML.done => fromHTML.minutes \in Nat /\ fromHTML.minutes >= 1

Wit_C7_EmptyBody ==
    /\ text = <<>>
    /\ fromText.done /\ fromText.minutes = 1
    /\ fromHTML.done /\ fromHTML.minutes = 1

\* C8: a body of exactly n words gives max(1, ceil(n / 200)) minutes: the
\* least m >= 1 with n <= 200 m; 0 and 200 words give 1, 201 and 400 give 2,
\* 401 gives 3
Thm_C8_CeilingOfWordsOver200 ==
    fromText.done =>
        LET n == Cardinality(WordRunEnds(text))
            m == fromText.minutes
        IN  /\ m >= 1
            /\ n <= 200 * m
            /\ m > 1 => n > 200 * (m - 1)
            /\ n \in {0, 200} => m = 1
            /\ n \in {201, 400} => m = 2
            /\ n = 401 => m = 3

Wit_C8_Boundary401 ==
    /\ fromText.done
    /\ Cardinality(WordRunEnds(text)) = 401
    /\ fromText.minutes = 3

\* C9: estimateReadMinutesFromHTML counts the words of the body with each tag
\* replaced by a space: nothing inside a tag is a word, words separated only
\* by tags stay separate, and "<p>one two</p><p>three</p>" has 3 words
Thm_C9_TagsBecomeSpaces ==
    fromHTML.done =>
        /\ fromHTML.englishWords = Cardinality(WordRunEnds(TagsBlanked(text)))
        /\ fromHTML.minutes = estimateReadMinutesFromText(TagsBlanked(text))
        /\ text = MarkupExample => fromHTML.englishWords = 3 /\ fromHTML.minutes = 1
        /\ text = <<"a", "<", ">", "a">> => fromHTML.englishWords = 2

Wit_C9_MarkupExample ==
    /\ text = MarkupExample
    /\ fromHTML.done
    /\ fromHTML.englishWords = 3

\* C10: the word count of estimateReadMinutesFromText is the number of
\* maximal runs of [A-Za-z0-9] characters of the body as given; a body of
\* non-Latin characters only has no word and takes 1 minute
Thm_C10_WordsAreAlnumRuns ==
    fromText.done =>
        /\ fromText.englishWords = Cardinality(WordRunEnds(text))
        /\ (\A i \in 1..Len(text) : text[i] \in NonLatin) =>
               fromText.englishWords = 0 /\ fromText.minutes = 1

Wit_C10_NonLatinBody ==
    /\ Len(text) > 1
    /\ \A i \in 1..Len(text) : text[i] \in NonLatin
    /\ fromText.done
    /\ fromText.englishWords = 0
    /\ fromText.minutes = 1

\* the bodies a of which t is a + b, for b of at most MaxTextLen characters
Prefixes(t) == {SubSeq(t, 1, k) : k \in Max(0, Len(t) - MaxTextLen)..Len(t)}

\* C29: for a body a + b, neither estimator returns less than it returns
\* for a
Claim_C29_MonotoneUnderAppend ==
    /\ fromText.done =>
           \A a \in Prefixes(text) : estimateReadMinutesFromText(a) <= fromText.minutes
    /\ fromHTML.done =>
           \A a \in Prefixes(text) : estimateReadMinutesFromHTML(a) <= fromHTML.minutes

\* no '<' of t has a '>' after it
NoTag(t) == \A i \in 1..Len(t) : t[i] = "<" => \A j \in (i + 1)..Len(t) : t[j] # ">"

\* t with the whitespace at positions i..j replaced by one space
OneRunCollapsed(t, i, j) == SubSeq(t, 1, i - 1) \o <<" ">> \o SubSeq(t, j + 1, Len(t))

\* t with its whitespace normalised: every run collapsed, the ends trimmed,
\* and, for a body of at most MaxTextLen characters, any one run collapsed
SpaceVariants(t) ==
    {CollapseWhitespace(t), Trim(t)}
        \cup IF Len(t) > MaxTextLen THEN {}
             ELSE {OneRunCollapsed(t, i, j) :
                      <<i, j>> \in {r \in (1..Len(t)) \X (1..Len(t)) :
                                      /\ r[1] <= r[2]
                                      /\ \A k \in r[1]..r[2] : IsSpace(t[k])}}

\* C30: on a body in which no '<' is followed by a '>', the two estimators
\* count the same words and return the same minutes, and each returns the
\* same for the body with its whitespace normalised
Thm_C30_NoTagsHTMLEqualsText ==
    NoTag(text) =>
        /\ (fromText.done /\ fromHTML.done) =>
               /\ fromHTML.englishWords = fromText.englishWords
               /\ fromHTML.minutes = fromText.minutes
        /\ fromText.done =>
               \A v \in SpaceVariants(text) :
                   /\ englishWords(v) = fromText.englishWords
                   /\ estimateReadMinutesFromText(v) = fromText.minutes
        /\ fromHTML.done =>
               \A v \in SpaceVariants(text) :
                   /\ englishWords(htmlText(v)) = fromHTML.englishWords
                   /\ estimateReadMinutesFromHTML(v) = fromHTML.minutes

Wit_C30_LoneAngleBrackets ==
    /\ text = <<"a", ">", " ", "<">>
    /\ fromText.done
    /\ fromHTML.done
    /\ fromHTML.englishWords = 1

====
